---- MODULE Spec2Model ----
(***************************************************************************)
(* Pi price oracle: the aggregation engine (PriceAggregator), its result   *)
(* cache (CacheService over node-cache) and the price sources it polls.    *)
(*                                                                         *)
(* Units.  Prices are integers and the arithmetic on them is exact, where  *)
(* the code computes in binary floating point.  Weights are integers       *)
(* counting halves, so 1.0 is 2, 1.5 is 3 and 2.0 is 4.  Time is in        *)
(* seconds.  A quotient the code leaves as a number is kept as the exact   *)
(* pair [num, den].                                                        *)
(*                                                                         *)
(* Spec runs the service with one request at a time; SpecFilter and        *)
(* SpecAverage apply removeOutliers and calculateAggregatedPrice to quote  *)
(* lists directly.                                                         *)
(***************************************************************************)
EXTENDS Integers, Sequences, FiniteSets, TLC

VARIABLES
  config,   \* the configuration object, read once at start-up
  now,      \* the wall clock (Date.now()), in seconds
  cache,    \* the single slot 'aggregated_price' of the node-cache
  health,   \* per source: successCount, errorCount, lastSuccess, lastError, responseTimes
  pc,       \* per getAggregatedPrice call: "idle", "fetching", "done"
  started,  \* per call: startTime of its fetch fan-out
  fetched,  \* per call and source: the promise of fetchAllPrices' map
  ret,      \* per call: what getAggregatedPrice returned or threw
  arg,      \* argument of a directly applied private method
  out       \* its return value

vars == <<config, now, cache, health, pc, started, fetched, ret, arg, out>>

(***************************************************************************)
(* Bounds of the model.                                                    *)
(***************************************************************************)
MaxTicks == 2            \* the clock advances this many times
MaxQuotes == 4           \* longest quote list handed to removeOutliers directly
MaxAvgQuotes == 3        \* longest quote list handed to calculateAggregatedPrice directly
MaxFetches == 103        \* requests one source serves when it is driven alone
MaxPolls == 4            \* requests one source serves while its status is watched
MaxFailures == 1         \* of which this many may fail

Calls == {"c1", "c2"}    \* the getAggregatedPrice calls of a run, c1 issued first
Earlier(c) == IF c = "c2" THEN {"c1"} ELSE {}

(***************************************************************************)
(* Configuration (config.ts) and the registered sources (index.ts).        *)
(***************************************************************************)
cacheTTL == 30
outlierThresholdPercent == 10
DefaultWeight == 2       \* the 1.0 of `priceData.weight || 1.0`
ResponseTimesCap == 100

sources == <<"coingecko", "bitget", "okx">>
weights == <<3, 4, 4>>   \* 1.5, 2.0, 2.0

SourceIds == 1..Len(sources)

TickSeconds == cacheTTL  \* the clock advances in steps of one TTL

Configs ==
  [minSourcesRequired : 1..Len(sources),
   outlierThresholdPercent : {outlierThresholdPercent},
   cacheTTL : {cacheTTL},
   weights : {weights}]

(***************************************************************************)
(* What an exchange may answer: no usable answer (network error, timeout,  *)
(* malformed body), or a ticker with a price.                              *)
(***************************************************************************)
PayloadPrices == {100, 200}
Responses == {[k |-> "neterr"]} \cup [k : {"data"}, price : PayloadPrices]

Abs(x) == IF x < 0 THEN -x ELSE x

(***************************************************************************)
(* PriceSource: health bookkeeping and fetchPrice.                         *)
(***************************************************************************)
NewHealth ==
  [successCount |-> 0, errorCount |-> 0, lastSuccess |-> <<>>, lastError |-> <<>>,
   responseTimes |-> <<>>]

\* Mutant of recordSuccess: a full list drops the sample just pushed.
recordSuccessEvictingNewest(h, responseTime, t) ==
  LET pushed == Append(h.responseTimes, responseTime)
  IN [h EXCEPT !.successCount = @ + 1,
               !.lastSuccess = <<t>>,
               !.responseTimes = IF Len(pushed) > ResponseTimesCap
                                 THEN SubSeq(pushed, 1, Len(pushed) - 1) ELSE pushed]

recordSuccess(h, responseTime, t) ==
  LET pushed == Append(h.responseTimes, responseTime)
  IN [h EXCEPT !.successCount = @ + 1,
               !.lastSuccess = <<t>>,
               !.responseTimes = IF Len(pushed) > ResponseTimesCap THEN Tail(pushed) ELSE pushed]

\* Mutant of recordError: a failure forgets the last success.
recordErrorClearingLastSuccess(h, error) ==
  [h EXCEPT !.errorCount = @ + 1, !.lastError = <<error>>, !.lastSuccess = <<>>]

recordError(h, error) ==
  [h EXCEPT !.errorCount = @ + 1, !.lastError = <<error>>]

\* getStatus: success_rate and avg_response_time_ms are kept as exact quotients
\* (0 when there is nothing to divide by).
RECURSIVE SumSeq(_)
SumSeq(seq) == IF seq = <<>> THEN 0 ELSE Head(seq) + SumSeq(Tail(seq))

\* Mutant of getStatus: the status follows the majority of the outcomes.
getStatusByMajority(s, h) ==
  LET totalRequests == h.successCount + h.errorCount
  IN [name |-> sources[s],
      status |-> IF h.errorCount > h.successCount THEN "error" ELSE "active",
      last_success |-> h.lastSuccess,
      last_error |-> h.lastError,
      success_rate |-> IF totalRequests > 0
                       THEN [num |-> h.successCount, den |-> totalRequests]
                       ELSE [num |-> 0, den |-> 1],
      avg_response_time_ms |-> IF Len(h.responseTimes) > 0
                               THEN [num |-> SumSeq(h.responseTimes),
                                     den |-> Len(h.responseTimes)]
                               ELSE [num |-> 0, den |-> 1]]

getStatus(s, h) ==
  LET totalRequests == h.successCount + h.errorCount
  IN [name |-> sources[s],
      status |-> IF h.errorCount = 0 \/ h.successCount > 0 THEN "active" ELSE "error",
      last_success |-> h.lastSuccess,
      last_error |-> h.lastError,
      success_rate |-> IF totalRequests > 0
                       THEN [num |-> h.successCount, den |-> totalRequests]
                       ELSE [num |-> 0, den |-> 1],
      avg_response_time_ms |-> IF Len(h.responseTimes) > 0
                               THEN [num |-> SumSeq(h.responseTimes),
                                     den |-> Len(h.responseTimes)]
                               ELSE [num |-> 0, den |-> 1]]

\* The price check of the connectors: `!price || isNaN(price)` throws; price 0
\* stands for every falsy price (0, NaN).
InvalidPrice(price) == price = 0

\* One fetchPrice of source s, from the answer of the exchange to the settled
\* promise of fetchAllPrices' wrapper (a caught SourceError becomes null).
fetchPrice(s, h, resp, startTime, t) ==
  IF resp.k = "neterr"
  THEN [value |-> [k |-> "null"], health |-> recordError(h, "network error")]
  ELSE IF InvalidPrice(resp.price)
  THEN [value |-> [k |-> "null"], health |-> recordError(h, "Invalid price data")]
  ELSE [value |-> [k |-> "quote", price |-> resp.price, timestamp |-> t,
                   source |-> sources[s], weight |-> config.weights[s]],
        health |-> recordSuccess(h, t - startTime, t)]

(***************************************************************************)
(* CacheService: one slot; node-cache keeps the value with its expiry time *)
(* t = Date.now() + ttl and serves it as long as t is not before the clock.*)
(***************************************************************************)
NoEntry == [k |-> "none"]

CacheExpired(c, t) == c.k = "entry" /\ c.t < t

\* Mutant of CacheGet: the expiry time is not looked at.
CacheGetIgnoringExpiry(c, t) ==
  IF c.k = "entry"
  THEN [hit |-> TRUE, value |-> c.v, cache |-> c]
  ELSE [hit |-> FALSE, value |-> NoEntry, cache |-> NoEntry]

\* get: the stored value, or undefined (an expired entry is dropped by the read).
CacheGet(c, t) ==
  IF c.k = "entry" /\ ~CacheExpired(c, t)
  THEN [hit |-> TRUE, value |-> c.v, cache |-> c]
  ELSE [hit |-> FALSE, value |-> NoEntry, cache |-> NoEntry]

\* Mutant of CacheSet: the stored value keeps the entries of the value it
\* replaces.
CacheSetMerging(value, t) ==
  LET old == IF cache.k = "entry" THEN cache.v.source_prices ELSE <<>>
  IN [k |-> "entry",
      v |-> [value EXCEPT !.source_prices =
               [n \in (DOMAIN old) \cup (DOMAIN value.source_prices) |->
                  IF n \in DOMAIN old THEN old[n] ELSE value.source_prices[n]]],
      t |-> t + config.cacheTTL]

\* set(key, value): ttl || config.cacheTTL
CacheSet(value, t) == [k |-> "entry", v |-> value, t |-> t + config.cacheTTL]

(***************************************************************************)
(* PriceAggregator: the private methods.                                   *)
(***************************************************************************)
RECURSIVE InsertSorted(_, _)
InsertSorted(x, seq) ==
  IF seq = <<>> THEN <<x>>
  ELSE IF x < Head(seq) THEN <<x>> \o seq
  ELSE <<Head(seq)>> \o InsertSorted(x, Tail(seq))

RECURSIVE SortAscending(_)
SortAscending(seq) ==
  IF seq = <<>> THEN <<>> ELSE InsertSorted(Head(seq), SortAscending(Tail(seq)))

PricesOf(prices) == [i \in 1..Len(prices) |-> prices[i].price]

\* Mutant of Median: the lower median for an even count.
MedianLower(prices) == SortAscending(PricesOf(prices))[((Len(prices) - 1) \div 2) + 1]

\* sortedPrices[Math.floor(sortedPrices.length / 2)].price (0-based index)
Median(prices) == SortAscending(PricesOf(prices))[(Len(prices) \div 2) + 1]

\* Mutant of IsOutlier: a deviation equal to the threshold is an outlier too.
IsOutlierInclusive(p, median, pct) == Abs(p.price - median) * 100 >= pct * median

\* deviation > threshold, with threshold = (pct / 100) * median
IsOutlier(p, median, pct) == Abs(p.price - median) * 100 > pct * median

\* Mutant of removeOutliers: two quotes are already filtered.
removeOutliersFromTwo(prices) ==
  IF Len(prices) < 2
  THEN prices
  ELSE LET median == Median(prices)
       IN SelectSeq(prices, LAMBDA p : ~IsOutlier(p, median, config.outlierThresholdPercent))

removeOutliers(prices) ==
  IF Len(prices) < 3
  THEN prices
  ELSE LET median == Median(prices)
       IN SelectSeq(prices, LAMBDA p : ~IsOutlier(p, median, config.outlierThresholdPercent))

\* priceData.weight || 1.0 (a raw weight of 0 stands for every falsy weight)
EffectiveWeight(q) == IF q.weight = 0 THEN DefaultWeight ELSE q.weight

RECURSIVE WeightedSum(_)
WeightedSum(prices) ==
  IF prices = <<>> THEN 0
  ELSE Head(prices).price * EffectiveWeight(Head(prices)) + WeightedSum(Tail(prices))

RECURSIVE TotalWeight(_)
TotalWeight(prices) ==
  IF prices = <<>> THEN 0 ELSE EffectiveWeight(Head(prices)) + TotalWeight(Tail(prices))

\* Mutant of SourcePrices: the entries are keyed by the symbol.
SourcePricesKeyedBySymbol(prices) ==
  IF prices = <<>> THEN <<>>
  ELSE [n \in {"PI"} |-> [price |-> prices[Len(prices)].price,
                          weight |-> EffectiveWeight(prices[Len(prices)]),
                          timestamp |-> prices[Len(prices)].timestamp]]

\* sourcePrices[priceData.source] = {...}: a later quote of the same name wins
SourcePrices(prices) ==
  LET names == {prices[i].source : i \in 1..Len(prices)}
      last(n) == CHOOSE i \in 1..Len(prices) :
                   /\ prices[i].source = n
                   /\ \A j \in 1..Len(prices) : prices[j].source = n => j <= i
  IN [n \in names |-> [price |-> prices[last(n)].price,
                       weight |-> EffectiveWeight(prices[last(n)]),
                       timestamp |-> prices[last(n)].timestamp]]

RECURSIVE SumPrices(_)
SumPrices(prices) ==
  IF prices = <<>> THEN 0 ELSE Head(prices).price + SumPrices(Tail(prices))

RECURSIVE SumSquares(_)
SumSquares(prices) ==
  IF prices = <<>> THEN 0
  ELSE Head(prices).price * Head(prices).price + SumSquares(Tail(prices))

\* confidenceScore = sourceRatio * 0.6 + consistencyScore * 0.4, where
\* sourceRatio = min(n / T, 1), consistencyScore = max(0, 1 - cv * 10) and
\* cv = stdDev / mean.  With S the sum of the n prices and Q the sum of their
\* squares, mean = S / n and variance = (n * Q - S * S) / n^2, so that
\* cv = sqrt(n * Q - S * S) / S.  The score is kept as these exact ingredients.
ConfidenceScore(prices) ==
  [used |-> Len(prices),
   total |-> Len(sources),
   sum |-> SumPrices(prices),
   spread |-> Len(prices) * SumSquares(prices) - SumPrices(prices) * SumPrices(prices)]

\* The value of a score is a number of [0, 1].  No quotes: mean is 0 / 0, NaN.
\* sum = 0: cv is NaN (spread 0) or +Infinity, which max(0, .) turns into 0.
\* sum > 0: cv >= 0 and the consistency lies in [0, 1].  sum < 0: cv <= 0, the
\* consistency is 1 + 10 * sqrt(spread) / |sum| and the score is at most 1
\* exactly when 400 * spread * T^2 <= 9 * (T - min(n, T))^2 * sum^2.
ScoreInUnitInterval(score) ==
  LET counted == IF score.used < score.total THEN score.used ELSE score.total
      missing == score.total - counted
  IN IF score.used = 0 THEN FALSE
     ELSE IF score.sum = 0 THEN score.spread > 0
     ELSE IF score.sum > 0 THEN TRUE
     ELSE 400 * score.spread * score.total * score.total
            <= 9 * missing * missing * score.sum * score.sum

calculateAggregatedPrice(prices, cacheHit, t) ==
  [symbol |-> "PI",
   price_usd |-> [num |-> WeightedSum(prices), den |-> TotalWeight(prices)],
   timestamp |-> t,
   sources_used |-> Len(prices),
   total_sources |-> Len(sources),
   aggregation_method |-> "weighted_average",
   source_prices |-> SourcePrices(prices),
   confidence_score |-> ConfidenceScore(prices),
   cache_hit |-> cacheHit]

\* Mutant of CollectedPrices: every settled result is collected twice.
CollectedPricesTwice(results) ==
  SelectSeq([s \in SourceIds |-> results[s]] \o [s \in SourceIds |-> results[s]],
            LAMBDA r : r.k = "quote")

\* The quotes fetchAllPrices returns once every promise has settled.
CollectedPrices(results) ==
  SelectSeq([s \in SourceIds |-> results[s]], LAMBDA r : r.k = "quote")

\* Mutant of AllSettled: the join resolves with the first settled promise.
AnySettled(results) == \E s \in SourceIds : results[s].k # "pending"

AllSettled(results) == \A s \in SourceIds : results[s].k # "pending"

InsufficientSources == [k |-> "error", name |-> "PriceOracleError"]
Returned(result) == [k |-> "result", value |-> result]

\* Mutant of Aggregate: the minimum is checked after filtering only.
AggregateWithoutMinimumCheck(prices, t) ==
  LET filteredPrices == removeOutliers(prices)
  IN IF Len(filteredPrices) < config.minSourcesRequired
     THEN [ret |-> Returned(calculateAggregatedPrice(prices, FALSE, t)), store |-> FALSE]
     ELSE [ret |-> Returned(calculateAggregatedPrice(filteredPrices, FALSE, t)),
           store |-> TRUE]

\* Mutant of Aggregate: too few survivors of the filter is an error.
AggregateThrowingOnOutliers(prices, t) ==
  IF Len(prices) < config.minSourcesRequired
  THEN [ret |-> InsufficientSources, store |-> FALSE]
  ELSE LET filteredPrices == removeOutliers(prices)
       IN IF Len(filteredPrices) < config.minSourcesRequired
          THEN [ret |-> InsufficientSources, store |-> FALSE]
          ELSE [ret |-> Returned(calculateAggregatedPrice(filteredPrices, FALSE, t)),
                store |-> TRUE]

\* Mutant of Aggregate: the fallback averages the filtered quotes.
AggregateFallbackFiltered(prices, t) ==
  IF Len(prices) < config.minSourcesRequired
  THEN [ret |-> InsufficientSources, store |-> FALSE]
  ELSE LET filteredPrices == removeOutliers(prices)
       IN IF Len(filteredPrices) < config.minSourcesRequired
          THEN [ret |-> Returned(calculateAggregatedPrice(filteredPrices, FALSE, t)),
                store |-> FALSE]
          ELSE [ret |-> Returned(calculateAggregatedPrice(filteredPrices, FALSE, t)),
                store |-> TRUE]

\* getAggregatedPrice from the return of fetchAllPrices on: what the call
\* returns or throws, and whether it stores the result in the cache.
Aggregate(prices, t) ==
  IF Len(prices) < config.minSourcesRequired
  THEN [ret |-> InsufficientSources, store |-> FALSE]
  ELSE LET filteredPrices == removeOutliers(prices)
       IN IF Len(filteredPrices) < config.minSourcesRequired
          THEN [ret |-> Returned(calculateAggregatedPrice(prices, FALSE, t)),
                store |-> FALSE]
          ELSE [ret |-> Returned(calculateAggregatedPrice(filteredPrices, FALSE, t)),
                store |-> TRUE]

(***************************************************************************)
(* The service: getAggregatedPrice calls, the fetches they fan out, the    *)
(* clock and the cache's expiry sweep.                                     *)
(***************************************************************************)
Unused == [k |-> "none"]
Pending == [k |-> "pending"]

Init ==
  /\ config \in Configs
  /\ now = 0
  /\ cache = NoEntry
  /\ health = [s \in SourceIds |-> NewHealth]
  /\ pc = [c \in Calls |-> "idle"]
  /\ started = [c \in Calls |-> 0]
  /\ fetched = [c \in Calls |-> [s \in SourceIds |-> Unused]]
  /\ ret = [c \in Calls |-> Unused]
  /\ arg = Unused
  /\ out = Unused

\* Mutant of RequestHit: the stored object itself is marked and returned.
RequestHitMarkingEntry(c) ==
  /\ pc[c] = "idle"
  /\ CacheGet(cache, now).hit
  /\ ret' = [ret EXCEPT ![c] = Returned([CacheGet(cache, now).value EXCEPT !.cache_hit = TRUE])]
  /\ cache' = [cache EXCEPT !.v.cache_hit = TRUE]
  /\ pc' = [pc EXCEPT ![c] = "done"]
  /\ UNCHANGED <<config, now, health, started, fetched, arg, out>>

\* getAggregatedPrice, served from the cache: { ...cached, cache_hit: true }
RequestHit(c) ==
  /\ pc[c] = "idle"
  /\ CacheGet(cache, now).hit
  /\ ret' = [ret EXCEPT ![c] = Returned([CacheGet(cache, now).value EXCEPT !.cache_hit = TRUE])]
  /\ pc' = [pc EXCEPT ![c] = "done"]
  /\ UNCHANGED <<config, now, cache, health, started, fetched, arg, out>>

\* getAggregatedPrice on a miss, up to the await: fetchAllPrices has called
\* fetchPrice of every source, each is waiting for its exchange.
RequestMiss(c) ==
  /\ pc[c] = "idle"
  /\ ~CacheGet(cache, now).hit
  /\ cache' = CacheGet(cache, now).cache
  /\ started' = [started EXCEPT ![c] = now]
  /\ fetched' = [fetched EXCEPT ![c] = [s \in SourceIds |-> Pending]]
  /\ pc' = [pc EXCEPT ![c] = "fetching"]
  /\ UNCHANGED <<config, now, health, ret, arg, out>>

\* The exchange of source s answers call c's fetchPrice.
FetchSettle(c, s, resp) ==
  /\ pc[c] = "fetching"
  /\ fetched[c][s] = Pending
  /\ LET r == fetchPrice(s, health[s], resp, started[c], now)
     IN /\ fetched' = [fetched EXCEPT ![c][s] = r.value]
        /\ health' = [health EXCEPT ![s] = r.health]
  /\ UNCHANGED <<config, now, cache, pc, started, ret, arg, out>>

\* Mutant of Complete: the call resumes only once every fetch has delivered a
\* quote.
CompleteWhenAllFulfilled(c) ==
  /\ pc[c] = "fetching"
  /\ \A s \in SourceIds : fetched[c][s].k = "quote"
  /\ LET a == Aggregate(CollectedPrices(fetched[c]), now)
     IN /\ ret' = [ret EXCEPT ![c] = a.ret]
        /\ cache' = IF a.store THEN CacheSet(a.ret.value, now) ELSE cache
  /\ pc' = [pc EXCEPT ![c] = "done"]
  /\ UNCHANGED <<config, now, health, started, fetched, arg, out>>

\* Promise.allSettled resolves: the rest of getAggregatedPrice.
Complete(c) ==
  /\ pc[c] = "fetching"
  /\ AllSettled(fetched[c])
  /\ LET a == Aggregate(CollectedPrices(fetched[c]), now)
     IN /\ ret' = [ret EXCEPT ![c] = a.ret]
        /\ cache' = IF a.store THEN CacheSet(a.ret.value, now) ELSE cache
  /\ pc' = [pc EXCEPT ![c] = "done"]
  /\ UNCHANGED <<config, now, health, started, fetched, arg, out>>

Tick ==
  /\ now + TickSeconds <= MaxTicks * TickSeconds
  /\ now' = now + TickSeconds
  /\ UNCHANGED <<config, cache, health, pc, started, fetched, ret, arg, out>>

\* node-cache's periodic check (checkperiod) deletes an expired entry.
Sweep ==
  /\ CacheExpired(cache, now)
  /\ cache' = NoEntry
  /\ UNCHANGED <<config, now, health, pc, started, fetched, ret, arg, out>>

\* One logical request at a time: a call is issued once the earlier one returned.
CanIssue(c) == \A d \in Earlier(c) : pc[d] = "done"

Next ==
  \/ \E c \in Calls : CanIssue(c) /\ RequestHit(c)
  \/ \E c \in Calls : CanIssue(c) /\ RequestMiss(c)
  \/ \E c \in Calls, s \in SourceIds, resp \in Responses : FetchSettle(c, s, resp)
  \/ \E c \in Calls : Complete(c)
  \/ Tick
  \/ Sweep

Spec == Init /\ [][Next]_vars

(***************************************************************************)
(* removeOutliers applied directly to a quote list, under each threshold.  *)
(***************************************************************************)
QuoteNames == <<"q1", "q2", "q3", "q4", "q5", "q6">>
FilterPrices == {-100, 0, 100, 110, 120}
FilterThresholds == {-10, 0, 10, 50}

\* The quote lists of length n with prices in P and raw weights in W.
QuoteLists(n, P, W) ==
  {[i \in 1..n |-> [k |-> "quote", price |-> f[i][1], timestamp |-> 0,
                    source |-> QuoteNames[i], weight |-> f[i][2]]] :
     f \in [1..n -> P \X W]}

InitFilter ==
  /\ config \in [minSourcesRequired : {1},
                 outlierThresholdPercent : FilterThresholds,
                 cacheTTL : {cacheTTL},
                 weights : {weights}]
  /\ now = 0
  /\ cache = NoEntry
  /\ health = [s \in SourceIds |-> NewHealth]
  /\ pc = [c \in Calls |-> "idle"]
  /\ started = [c \in Calls |-> 0]
  /\ fetched = [c \in Calls |-> [s \in SourceIds |-> Unused]]
  /\ ret = [c \in Calls |-> Unused]
  /\ \E n \in 0..MaxQuotes :
       arg \in {[k |-> "prices", prices |-> q] : q \in QuoteLists(n, FilterPrices, {DefaultWeight})}
  /\ out = Unused

ApplyRemoveOutliers ==
  /\ arg.k = "prices"
  /\ out = Unused
  /\ out' = [k |-> "filtered", value |-> removeOutliers(arg.prices)]
  /\ UNCHANGED <<config, now, cache, health, pc, started, fetched, ret, arg>>

SpecFilter == InitFilter /\ [][ApplyRemoveOutliers]_vars

(***************************************************************************)
(* calculateAggregatedPrice applied directly to a non-empty quote list.    *)
(* A raw weight of 0 stands for every falsy weight (absent, 0, NaN).       *)
(***************************************************************************)
AveragePrices == {-100, 100, 105}
AverageWeights == {0, 3, 4, -4}

InitAverage ==
  /\ config \in [minSourcesRequired : {1},
                 outlierThresholdPercent : {outlierThresholdPercent},
                 cacheTTL : {cacheTTL},
                 weights : {weights}]
  /\ now = 0
  /\ cache = NoEntry
  /\ health = [s \in SourceIds |-> NewHealth]
  /\ pc = [c \in Calls |-> "idle"]
  /\ started = [c \in Calls |-> 0]
  /\ fetched = [c \in Calls |-> [s \in SourceIds |-> Unused]]
  /\ ret = [c \in Calls |-> Unused]
  /\ \E n \in 1..MaxAvgQuotes :
       arg \in {[k |-> "prices", prices |-> q] : q \in QuoteLists(n, AveragePrices, AverageWeights)}
  /\ out = Unused

ApplyCalculateAggregatedPrice ==
  /\ arg.k = "prices"
  /\ out = Unused
  /\ out' = [k |-> "aggregated", value |-> calculateAggregatedPrice(arg.prices, FALSE, now)]
  /\ UNCHANGED <<config, now, cache, health, pc, started, fetched, ret, arg>>

SpecAverage == InitAverage /\ [][ApplyCalculateAggregatedPrice]_vars

(***************************************************************************)
(* One aggregation cycle over everything an exchange may answer (a price   *)
(* of 0 stands for every falsy price) and under configured weights of      *)
(* either sign, with status queries in between.                            *)
(***************************************************************************)
CyclePrices == {0, -100, -50, 100}
CycleResponses == {[k |-> "neterr"]} \cup [k : {"data"}, price : CyclePrices]
CycleWeights == {weights, <<-4, 4, 4>>, <<0, 4, 4>>}

\* getAllSourceStatuses: this.sources.map(source => source.getStatus())
\* Mutant of AllSourceStatuses: sources in error are left out.
AllSourceStatusesOnlyActive(h) ==
  SelectSeq([s \in SourceIds |-> getStatus(s, h[s])], LAMBDA st : st.status = "active")

AllSourceStatuses(h) == [s \in SourceIds |-> getStatus(s, h[s])]

GetAllSourceStatuses ==
  /\ out' = [k |-> "statuses", value |-> AllSourceStatuses(health)]
  /\ UNCHANGED <<config, now, cache, health, pc, started, fetched, ret, arg>>

InitCycle ==
  /\ config \in [minSourcesRequired : 1..Len(sources),
                 outlierThresholdPercent : {outlierThresholdPercent},
                 cacheTTL : {cacheTTL},
                 weights : CycleWeights]
  /\ now = 0
  /\ cache = NoEntry
  /\ health = [s \in SourceIds |-> NewHealth]
  /\ pc = [c \in Calls |-> "idle"]
  /\ started = [c \in Calls |-> 0]
  /\ fetched = [c \in Calls |-> [s \in SourceIds |-> Unused]]
  /\ ret = [c \in Calls |-> Unused]
  /\ arg = Unused
  /\ out = Unused

NextCycle ==
  \/ RequestMiss("c1")
  \/ \E s \in SourceIds, resp \in CycleResponses : FetchSettle("c1", s, resp)
  \/ Complete("c1")
  \/ GetAllSourceStatuses

SpecCycle == InitCycle /\ [][NextCycle]_vars

\* The call's pending fetches do not all stay pending for ever (which follows
\* from each fetchPrice settling), and the event loop resumes the call once
\* its Promise.allSettled has resolved.
LiveCycle ==
  /\ SpecCycle
  /\ WF_vars(\E s \in SourceIds, resp \in CycleResponses : FetchSettle("c1", s, resp))
  /\ WF_vars(Complete("c1"))

(***************************************************************************)
(* One PriceSource driven alone, request after request. The n-th request  *)
(* takes n milliseconds (the clock counts milliseconds here), so every    *)
(* latency sample tells which request it came from.                       *)
(***************************************************************************)
InitSource ==
  /\ config \in [minSourcesRequired : {1},
                 outlierThresholdPercent : {outlierThresholdPercent},
                 cacheTTL : {cacheTTL},
                 weights : {weights}]
  /\ now = 0
  /\ cache = NoEntry
  /\ health = [s \in SourceIds |-> NewHealth]
  /\ pc = [c \in Calls |-> "idle"]
  /\ started = [c \in Calls |-> 0]
  /\ fetched = [c \in Calls |-> [s \in SourceIds |-> Unused]]
  /\ ret = [c \in Calls |-> Unused]
  /\ arg \in [k : {"source"}, source : SourceIds]
  /\ out = Unused

SourceFetch(resp) ==
  /\ arg.k = "source"
  /\ LET s == arg.source
         n == health[s].successCount + health[s].errorCount + 1
     IN /\ n <= MaxFetches
        /\ resp.k = "neterr" => health[s].errorCount < MaxFailures
        /\ LET r == fetchPrice(s, health[s], resp, now, now + n)
           IN /\ health' = [health EXCEPT ![s] = r.health]
              /\ out' = r.value
        /\ now' = now + n
  /\ UNCHANGED <<config, cache, pc, started, fetched, ret, arg>>

NextSource == \E resp \in Responses : SourceFetch(resp)

SpecSource == InitSource /\ [][NextSource]_vars

(***************************************************************************)
(* Concurrent requests: a call may be issued while another is awaiting its *)
(* fetches. The clock stands still, so an entry once stored stays fresh.   *)
(***************************************************************************)
NextConcurrent ==
  \/ \E c \in Calls : RequestHit(c)
  \/ \E c \in Calls : RequestMiss(c)
  \/ \E c \in Calls, s \in SourceIds, resp \in Responses : FetchSettle(c, s, resp)
  \/ \E c \in Calls : Complete(c)

SpecConcurrent == Init /\ [][NextConcurrent]_vars

(***************************************************************************)
(* One PriceSource polled a few times with any outcome (each request takes *)
(* one millisecond), its status read in between through                    *)
(* getAllSourceStatuses.                                                   *)
(***************************************************************************)
SourcePoll(resp) ==
  /\ arg.k = "source"
  /\ LET s == arg.source
     IN /\ health[s].successCount + health[s].errorCount < MaxPolls
        /\ LET r == fetchPrice(s, health[s], resp, now, now + 1)
           IN /\ health' = [health EXCEPT ![s] = r.health]
              /\ out' = r.value
  /\ now' = now + 1
  /\ UNCHANGED <<config, cache, pc, started, fetched, ret, arg>>

NextStatus ==
  \/ \E resp \in CycleResponses : SourcePoll(resp)
  \/ GetAllSourceStatuses

SpecStatus == InitSource /\ [][NextStatus]_vars

(***************************************************************************)
(* Properties.                                                             *)
(***************************************************************************)
\* The call went through a fetch fan-out (it missed the cache).
Missed(c) == \A s \in SourceIds : fetched[c][s].k # "none"
Fresh(c) == ret[c].k = "result" /\ ~ret[c].value.cache_hit

\* C1: of two successful calls, the first a cache miss and the second issued
\* within the cache TTL of the first, the second returns the first's price_usd
\* and source_prices with cache_hit = true, whichever path (filtered or
\* fallback) computed the first result.
C1_SecondCallServedFromCache ==
  \A c \in Calls, d \in Calls :
    ( /\ c \in Earlier(d)
      /\ Fresh(c)
      /\ pc[d] = "done" /\ ret[d].k = "result"
      /\ (Missed(d) => started[d] <= ret[c].value.timestamp + cacheTTL) )
    => /\ ret[d].value.cache_hit
       /\ ret[d].value.price_usd = ret[c].value.price_usd
       /\ ret[d].value.source_prices = ret[c].value.source_prices

\* C2: a call that collects fewer than minSourcesRequired quotes throws the
\* insufficient-sources error, and no step of it writes or overwrites a cache
\* entry.
C2_InsufficientLeavesCache ==
  [][\A c \in Calls :
       /\ (pc[c] = "idle" /\ pc'[c] = "fetching" /\ cache'.k = "entry") => cache' = cache
       /\ ( /\ pc[c] = "fetching" /\ pc'[c] = "done"
            /\ Len(CollectedPrices(fetched[c])) < config.minSourcesRequired )
          => (ret'[c] = InsufficientSources /\ cache' = cache)]_vars

\* C2 witness: a call failed although some source delivered a quote, and the
\* cache holds nothing.
C2_Witness ==
  \E c \in Calls :
    /\ ret[c] = InsufficientSources
    /\ Len(CollectedPrices(fetched[c])) >= 1
    /\ cache = NoEntry

\* C3: every call that computes a fresh result stores that result in the
\* cache before returning it, on the filtered path and on the fallback path.
C3_FreshResultStored ==
  [][\A c \in Calls :
       (pc[c] = "fetching" /\ pc'[c] = "done" /\ ret'[c].k = "result")
       => (cache'.k = "entry" /\ cache'.v = ret'[c].value)]_vars

\* C4: a call issued after the cached entry's TTL has expired is a miss: it
\* starts one fetch per registered source without returning or throwing, and
\* if it succeeds its result is newly computed from its own quotes, with
\* cache_hit = false.
C4_ExpiredEntryIsAMiss ==
  /\ [][\A c \in Calls :
          (pc[c] = "idle" /\ pc'[c] # "idle" /\ cache.k = "entry" /\ cache.t < now)
          => /\ pc'[c] = "fetching"
             /\ \A s \in SourceIds : fetched'[c][s] = Pending
             /\ ret'[c] = Unused]_vars
  /\ [](\A c \in Calls :
          (pc[c] = "done" /\ Missed(c) /\ ret[c].k = "result")
          => /\ ~ret[c].value.cache_hit
             /\ ret[c].value.timestamp >= started[c]
             /\ \A n \in DOMAIN ret[c].value.source_prices :
                  \E s \in SourceIds :
                    /\ fetched[c][s].k = "quote"
                    /\ fetched[c][s].source = n
                    /\ fetched[c][s].price = ret[c].value.source_prices[n].price
                    /\ fetched[c][s].timestamp = ret[c].value.source_prices[n].timestamp)

\* C4 witness: the first call's result was cached, and the second call, issued
\* after that entry expired, fetched again and returned a fresh result.
C4_Witness ==
  \E c \in Calls, d \in Calls :
    /\ c \in Earlier(d)
    /\ Fresh(c)
    /\ Len(removeOutliers(CollectedPrices(fetched[c]))) >= config.minSourcesRequired
    /\ pc[d] = "done" /\ Missed(d) /\ Fresh(d)
    /\ started[d] > ret[c].value.timestamp + cacheTTL

\* C5: on a miss the call throws exactly when fewer than minSourcesRequired
\* quotes were collected, and then it is the insufficient-sources error; a
\* source's own failure is never the call's outcome, and with enough quotes
\* the call returns a result whatever the filter removed.
C5_ErrorIffTooFewQuotes ==
  \A c \in Calls :
    /\ pc[c] = "fetching" => ret[c] = Unused
    /\ (pc[c] = "done" /\ Missed(c))
       => /\ ret[c].k \in {"error", "result"}
          /\ ret[c].k = "error" => ret[c] = InsufficientSources
          /\ (ret[c].k = "error")
               <=> (Len(CollectedPrices(fetched[c])) < config.minSourcesRequired)

\* C5 witness: one call returned a result although a source failed, another
\* returned a result although the filter removed a quote.
C5_Witness ==
  \E c \in Calls, d \in Calls :
    /\ ret[c].k = "result" /\ Missed(c)
    /\ \E s \in SourceIds : fetched[c][s].k = "null"
    /\ ret[d].k = "result" /\ Missed(d)
    /\ Len(removeOutliers(CollectedPrices(fetched[d]))) < Len(CollectedPrices(fetched[d]))

\* C6: with at least minSourcesRequired quotes collected and fewer than that
\* surviving the filter, the call returns a result computed from all collected
\* quotes: sources_used counts them all and source_prices has each of them,
\* the outliers included.
C6_FallbackUsesAllQuotes ==
  \A c \in Calls :
    LET prices == CollectedPrices(fetched[c])
    IN ( /\ pc[c] = "done" /\ Missed(c)
         /\ Len(prices) >= config.minSourcesRequired
         /\ Len(removeOutliers(prices)) < config.minSourcesRequired )
       => /\ ret[c].k = "result"
          /\ ret[c].value.sources_used = Len(prices)
          /\ \A i \in 1..Len(prices) :
               /\ prices[i].source \in DOMAIN ret[c].value.source_prices
               /\ ret[c].value.source_prices[prices[i].source].price = prices[i].price

\* C6 witness: a call took the fallback with a quote the filter had dropped.
C6_Witness ==
  \E c \in Calls :
    LET prices == CollectedPrices(fetched[c])
    IN /\ pc[c] = "done" /\ Missed(c)
       /\ Len(prices) >= config.minSourcesRequired
       /\ Len(removeOutliers(prices)) < config.minSourcesRequired
       /\ \E i \in 1..Len(prices) :
            /\ IsOutlier(prices[i], Median(prices), config.outlierThresholdPercent)
            /\ prices[i].source \in DOMAIN ret[c].value.source_prices

\* C7: on a miss every registered source is fetched exactly once: all fetches
\* are started together, a settled fetch is never redone, each settled fetch
\* is one success or one error in its source's health, and the call completes
\* only when every fetch has settled.
Settled(c, s) == fetched[c][s].k \in {"null", "quote"}

C8_FewQuotesUnchanged ==
  (out.k = "filtered" /\ Len(arg.prices) < 3) => out.value = arg.prices

\* C8 witness: two quotes 20 apart came back unchanged under a threshold of 0.
C8_Witness ==
  /\ out.k = "filtered"
  /\ Len(arg.prices) = 2
  /\ arg.prices[1].price = 100 /\ arg.prices[2].price = 120
  /\ config.outlierThresholdPercent = 0
  /\ out.value = arg.prices

\* C9: of 3 or more quotes removeOutliers returns, in input order, exactly
\* those whose absolute deviation from the median is at most
\* (outlierThresholdPercent / 100) * median, the median being the price at
\* index floor(n/2) of the ascending prices.
C9_KeepsExactlyQuotesWithinThreshold ==
  (out.k = "filtered" /\ Len(arg.prices) >= 3) =>
    LET prices == arg.prices
        n == Len(prices)
        pct == config.outlierThresholdPercent
        IsMedian(m) ==
          /\ Cardinality({i \in 1..n : prices[i].price < m}) <= n \div 2
          /\ Cardinality({i \in 1..n : prices[i].price <= m}) > n \div 2
        m == CHOOSE x \in {prices[i].price : i \in 1..n} : IsMedian(x)
        Kept == {i \in 1..n : Abs(prices[i].price - m) * 100 <= pct * m}
        Nth(j) == CHOOSE i \in Kept : Cardinality({k \in Kept : k < i}) = j - 1
    IN /\ Len(out.value) = Cardinality(Kept)
       /\ \A j \in 1..Len(out.value) : out.value[j] = prices[Nth(j)]

\* C9 witness: the quotes 110, -100, 100, -100 under 10%: the median is the
\* upper one, 100; 110 lies exactly on the threshold and stays with 100, both
\* -100 are dropped.
C9_Witness ==
  /\ out.k = "filtered"
  /\ Len(arg.prices) = 4
  /\ config.outlierThresholdPercent = 10
  /\ arg.prices[1].price = 110 /\ arg.prices[2].price = -100
  /\ arg.prices[3].price = 100 /\ arg.prices[4].price = -100
  /\ out.value = <<arg.prices[1], arg.prices[3]>>

\* C10: the price_usd of calculateAggregatedPrice over a non-empty quote list
\* is sum(price * weight) / sum(weight) and lies within [min(prices),
\* max(prices)] of those quotes.
C10_WeightedAverageWithinRange ==
  out.k = "aggregated" =>
    LET prices == arg.prices
        r == out.value.price_usd
        lo == CHOOSE x \in {prices[i].price : i \in 1..Len(prices)} :
                \A i \in 1..Len(prices) : x <= prices[i].price
        hi == CHOOSE x \in {prices[i].price : i \in 1..Len(prices)} :
                \A i \in 1..Len(prices) : x >= prices[i].price
    IN /\ r.num = WeightedSum(prices)
       /\ r.den = TotalWeight(prices)
       /\ r.den # 0
       /\ r.den > 0 => (lo * r.den <= r.num /\ r.num <= hi * r.den)
       /\ r.den < 0 => (lo * r.den >= r.num /\ r.num >= hi * r.den)

\* C11: the confidence_score of every result getAggregatedPrice returns is a
\* number in [0, 1], for any non-empty set of quotes the sources can deliver,
\* a mean of 0 included.
C11_ConfidenceInUnitInterval ==
  \A c \in Calls :
    ret[c].k = "result" => ScoreInUnitInterval(ret[c].value.confidence_score)

\* C12: every weight used in the weighted average and recorded in
\* source_prices is strictly greater than 0, so the sum of the weights is
\* never 0.
C12_WeightsPositive ==
  \A c \in Calls :
    ret[c].k = "result"
    => /\ \A n \in DOMAIN ret[c].value.source_prices :
            ret[c].value.source_prices[n].weight > 0
       /\ ret[c].value.price_usd.den # 0

\* C13: in every result returned, fresh or cached, sources_used is at most
\* total_sources, the number of registered sources.
C13_UsedAtMostTotal ==
  \A c \in Calls :
    ret[c].k = "result"
    => /\ ret[c].value.total_sources = Len(sources)
       /\ ret[c].value.sources_used <= ret[c].value.total_sources

\* C13 witness: a result served from the cache that used some but not all of
\* the sources.
C13_Witness ==
  \E c \in Calls :
    /\ ret[c].k = "result" /\ ret[c].value.cache_hit
    /\ ret[c].value.sources_used >= 1
    /\ ret[c].value.sources_used < ret[c].value.total_sources

\* C14: in every result returned, source_prices has exactly one entry per
\* quote used (as many keys as sources_used), every key names a registered
\* source, and the entry carries the price, the weight (1.0 for a falsy one)
\* and the timestamp of that source's quote.
C14_OneEntryPerQuote ==
  \A c \in Calls :
    ret[c].k = "result"
    => LET sp == ret[c].value.source_prices
       IN /\ Cardinality(DOMAIN sp) = ret[c].value.sources_used
          /\ \A n \in DOMAIN sp :
               \E s \in SourceIds, d \in Calls :
                 /\ sources[s] = n
                 /\ fetched[d][s].k = "quote"
                 /\ fetched[d][s].source = n
                 /\ sp[n].price = fetched[d][s].price
                 /\ sp[n].timestamp = fetched[d][s].timestamp
                 /\ sp[n].weight = IF fetched[d][s].weight = 0 THEN DefaultWeight
                                   ELSE fetched[d][s].weight

\* C14 witness: three quotes were collected, the filter dropped one and the
\* result lists the two it used.
C14_Witness ==
  \E c \in Calls :
    /\ Fresh(c)
    /\ Len(CollectedPrices(fetched[c])) = 3
    /\ ret[c].value.sources_used = 2
    /\ Cardinality(DOMAIN ret[c].value.source_prices) = 2

\* C15: fetchPrice never returns a quote whose price is zero, negative or
\* NaN.
C15_QuotePricePositive ==
  \A c \in Calls, s \in SourceIds :
    fetched[c][s].k = "quote" => fetched[c][s].price > 0

\* C16: every completed fetchPrice changes the health of its own source in
\* exactly one of two ways. A success adds 1 to successCount, sets
\* lastSuccess, appends one latency sample and leaves errorCount and
\* lastError alone; a failure adds 1 to errorCount, sets lastError and leaves
\* successCount, lastSuccess and responseTimes alone. No other source's
\* health changes, and health changes in no other step.
SuccessRecorded(h, g, latency, t) ==
  /\ g.successCount = h.successCount + 1
  /\ g.lastSuccess = <<t>>
  /\ Len(h.responseTimes) < ResponseTimesCap
     => g.responseTimes = Append(h.responseTimes, latency)
  /\ g.errorCount = h.errorCount
  /\ g.lastError = h.lastError

FailureRecorded(h, g) ==
  /\ g.errorCount = h.errorCount + 1
  /\ g.lastError # <<>>
  /\ g.successCount = h.successCount
  /\ g.lastSuccess = h.lastSuccess
  /\ g.responseTimes = h.responseTimes

C16_HealthChangesOneWay ==
  [][ /\ \A c \in Calls, s \in SourceIds :
           (fetched[c][s] = Pending /\ fetched'[c][s] # Pending)
           => /\ fetched'[c][s].k = "quote"
                 => SuccessRecorded(health[s], health'[s], now - started[c], now)
              /\ fetched'[c][s].k = "null"
                 => FailureRecorded(health[s], health'[s])
              /\ fetched'[c][s].k \in {"quote", "null"}
              /\ \A o \in SourceIds \ {s} : health'[o] = health[o]
      /\ health' # health
         => \E c \in Calls, s \in SourceIds :
              fetched[c][s] = Pending /\ fetched'[c][s] # Pending ]_vars

\* C16 witness: one source has recorded both a success and, after it, a
\* failure.
C16_Witness ==
  \E s \in SourceIds :
    /\ fetched["c1"][s].k = "quote"
    /\ fetched["c2"][s].k = "null"
    /\ health[s].successCount = 1 /\ health[s].errorCount = 1
    /\ health[s].lastSuccess # <<>> /\ health[s].lastError # <<>>

\* C17: a source's responseTimes never holds more than 100 entries; they are
\* the latencies of its most recent successes in the order they happened, and
\* once the list is full each new success evicts the oldest entry.
LastEntries(seq, n) ==
  IF Len(seq) <= n THEN seq ELSE SubSeq(seq, Len(seq) - n + 1, Len(seq))

C17_LastHundredLatencies ==
  /\ [](\A s \in SourceIds :
          LET h == health[s]
          IN /\ Len(h.responseTimes) <= 100
             /\ Len(h.responseTimes) = IF h.successCount < 100 THEN h.successCount ELSE 100
             /\ \A i \in 1..(Len(h.responseTimes) - 1) :
                  h.responseTimes[i] < h.responseTimes[i + 1]
             /\ \A i \in 1..Len(h.responseTimes) :
                  h.responseTimes[i] <= h.successCount + h.errorCount)
  /\ [][\A s \in SourceIds :
          /\ health'[s].successCount = health[s].successCount + 1
             => health'[s].responseTimes
                  = LastEntries(Append(health[s].responseTimes,
                                       health[s].successCount + health[s].errorCount + 1),
                                100)
          /\ health'[s].successCount = health[s].successCount
             => health'[s].responseTimes = health[s].responseTimes]_vars

\* C17 witness: after more than 100 successes and a failure the list holds
\* 100 entries, the first request's latency evicted and the latest one last.
C17_Witness ==
  \E s \in SourceIds :
    /\ health[s].successCount > 100
    /\ health[s].errorCount > 0
    /\ Len(health[s].responseTimes) = 100
    /\ health[s].responseTimes[1] > 1
    /\ health[s].responseTimes[100] = health[s].successCount + health[s].errorCount

\* C18: getAllSourceStatuses returns exactly one status per registered
\* source, in registration order, each the status of that source, and the
\* call changes no source's health and no cache state.
C18_StatusesInRegistrationOrder ==
  /\ [](out.k = "statuses"
        => /\ DOMAIN out.value = 1..Len(sources)
           /\ \A i \in 1..Len(sources) : out.value[i].name = sources[i])
  /\ [][(out' # out /\ out'.k = "statuses")
        => /\ \A i \in 1..Len(sources) : out'.value[i] = getStatus(i, health[i])
           /\ health' = health
           /\ cache' = cache
           /\ UNCHANGED <<config, now, pc, started, fetched, ret, arg>>]_vars

\* C18 witness: the statuses were read after the first registered source had
\* failed and the second had delivered.
C18_Witness ==
  /\ out.k = "statuses"
  /\ out.value[1].status = "error" /\ out.value[1].last_error # <<>>
  /\ out.value[2].status = "active" /\ out.value[2].last_success # <<>>
  /\ out.value[3].status = "active" /\ out.value[3].last_success = <<>>

\* C19: under any interleaving of concurrent getAggregatedPrice calls the
\* cache slot holds nothing or the complete result of one call's fetch cycle,
\* never a mixture of two cycles, and every call that has returned returned a
\* complete result or the insufficient-sources error.
CompleteResult(r) ==
  /\ r.sources_used >= 1
  /\ Cardinality(DOMAIN r.source_prices) = r.sources_used
  /\ r.price_usd.den > 0

FromCycleOf(r, c) ==
  /\ Missed(c)
  /\ \A n \in DOMAIN r.source_prices :
       \E s \in SourceIds :
         /\ fetched[c][s].k = "quote"
         /\ fetched[c][s].source = n
         /\ fetched[c][s].price = r.source_prices[n].price
         /\ fetched[c][s].timestamp = r.source_prices[n].timestamp
  /\ \E kept \in {removeOutliers(CollectedPrices(fetched[c])), CollectedPrices(fetched[c])} :
       /\ r.sources_used = Len(kept)
       /\ r.price_usd = [num |-> WeightedSum(kept), den |-> TotalWeight(kept)]

C19_CacheHoldsOneCycle ==
  /\ cache.k = "entry"
     => /\ CompleteResult(cache.v)
        /\ ~cache.v.cache_hit
        /\ \E c \in Calls : pc[c] = "done" /\ FromCycleOf(cache.v, c)
  /\ \A c \in Calls :
       pc[c] = "done"
       => \/ ret[c] = InsufficientSources
          \/ /\ ret[c].k = "result"
             /\ CompleteResult(ret[c].value)
             /\ \E d \in Calls : FromCycleOf(ret[c].value, d)

\* C19 witness: both calls missed the cache, their fetches overlapped, each
\* computed a result of its own and the later one overwrote the slot.
C19_Witness ==
  /\ Fresh("c1") /\ Fresh("c2")
  /\ \E s \in SourceIds :
       /\ fetched["c1"][s].k = "quote" /\ fetched["c2"][s].k = "quote"
       /\ fetched["c1"][s].price # fetched["c2"][s].price
  /\ \E s \in SourceIds : fetched["c1"][s].k = "quote" /\ fetched["c2"][s].k = "null"
  /\ ret["c1"].value.price_usd # ret["c2"].value.price_usd
  /\ cache.k = "entry" /\ cache.v = ret["c2"].value

\* C20: when every source fails during a call's cycle and an earlier call
\* computed a result, the call returns that earlier data instead of failing.
C20_FallbackToCache ==
  \A c \in Calls, d \in Calls :
    ( /\ c \in Earlier(d)
      /\ ret[c].k = "result"
      /\ pc[d] = "done" /\ Missed(d)
      /\ \A s \in SourceIds : fetched[d][s].k = "null" )
    => /\ ret[d].k = "result"
       /\ ret[d].value.price_usd = ret[c].value.price_usd

\* C21: a getAggregatedPrice call served from the cache invokes no fetchPrice:
\* it leaves every source's health unchanged and the stored entry unchanged.
\* The stored entry keeps cache_hit = false; only the returned copy has
\* cache_hit = true.
ServedFromCache(c) == pc[c] = "idle" /\ pc'[c] = "done"

C21_CacheHitChangesNothing ==
  /\ [](cache.k = "entry" => ~cache.v.cache_hit)
  /\ [][\A c \in Calls :
          ServedFromCache(c)
          => /\ ret'[c].k = "result" /\ ret'[c].value.cache_hit
             /\ [ret'[c].value EXCEPT !.cache_hit = FALSE] = cache.v
             /\ health' = health
             /\ fetched' = fetched
             /\ cache' = cache]_vars

\* C21 witness: a call was served from the cache without fetching, after the
\* sources had been fetched by the call that filled the cache.
C21_Witness ==
  \E c \in Calls :
    /\ pc[c] = "done" /\ ret[c].k = "result" /\ ret[c].value.cache_hit
    /\ \A s \in SourceIds : fetched[c][s] = Unused
    /\ cache.k = "entry" /\ ~cache.v.cache_hit
    /\ \E s \in SourceIds : health[s].successCount = 1

\* C22: of 3 or more quotes whose median price is positive, under a threshold
\* percent of at least 0, removeOutliers keeps the median quote, so its result
\* is not empty; the result is empty only when the median price or the
\* threshold percent is negative.
C22_MedianQuoteKept ==
  (out.k = "filtered" /\ Len(arg.prices) >= 3) =>
    LET m == Median(arg.prices)
        pct == config.outlierThresholdPercent
    IN /\ (m > 0 /\ pct >= 0)
          => /\ out.value # <<>>
             /\ \E j \in 1..Len(out.value) : out.value[j].price = m
       /\ out.value = <<>> => (m < 0 \/ pct < 0)

\* C22 witness: the quotes 100, 110, 120 under a threshold of 0: only the
\* median quote survives.
C22_Witness ==
  /\ out.k = "filtered"
  /\ Len(arg.prices) = 3
  /\ config.outlierThresholdPercent = 0
  /\ arg.prices[1].price = 100 /\ arg.prices[2].price = 110 /\ arg.prices[3].price = 120
  /\ out.value = <<arg.prices[2]>>

\* C23: getStatus reports 'error' exactly when the source has recorded at
\* least one error and no success, so a source that has succeeded once is
\* reported 'active' after every later sequence of fetches, however many of
\* them fail; success_rate is successCount / (successCount + errorCount), or
\* 0 before any fetch.
C23_ErrorOnlyWithoutSuccess ==
  /\ [][(out' # out /\ out'.k = "statuses")
        => \A i \in SourceIds :
             LET h == health[i]
                 st == out'.value[i]
             IN /\ st.status \in {"active", "error"}
                /\ st.status = "error" <=> (h.errorCount >= 1 /\ h.successCount = 0)
                /\ h.successCount >= 1 => st.status = "active"
                /\ IF h.successCount + h.errorCount = 0
                   THEN st.success_rate.num = 0
                   ELSE st.success_rate = [num |-> h.successCount,
                                           den |-> h.successCount + h.errorCount]]_vars
  /\ [][\A i \in SourceIds : health'[i].successCount >= health[i].successCount]_vars

\* C23 witness: a source succeeded on its first request, failed on the next
\* three and is reported 'active' with a success rate of 1/4.
C23_Witness ==
  /\ out.k = "statuses"
  /\ \E i \in SourceIds :
       /\ health[i].lastSuccess = <<1>>
       /\ health[i].errorCount = 3
       /\ now = 4
       /\ out.value[i] = getStatus(i, health[i])
       /\ out.value[i].status = "active"
       /\ out.value[i].success_rate = [num |-> 1, den |-> 4]

\* C24: if every fetchPrice that was called eventually settles, every
\* getAggregatedPrice call that started fetching eventually completes, with a
\* result or with the insufficient-sources error; it never waits forever on a
\* failed source.
C24_EveryCallCompletes ==
  \A c \in Calls :
    (pc[c] = "fetching")
      ~> (pc[c] = "done" /\ (ret[c].k = "result" \/ ret[c] = InsufficientSources))

\* C24 witness: the call completed with a result after one fetch had failed
\* on the network and another on an invalid price.
C24_Witness ==
  /\ pc["c1"] = "done"
  /\ ret["c1"].k = "result"
  /\ \E s \in SourceIds, u \in SourceIds :
       /\ fetched["c1"][s].k = "null" /\ health[s].lastError = <<"network error">>
       /\ fetched["c1"][u].k = "null" /\ health[u].lastError = <<"Invalid price data">>

====
